---- MODULE Spec2Model ----
(***************************************************************************)
(* A model of ts_hashmap.c: a chained hash table of int keys and int       *)
(* values behind one global pthread mutex.  Threads call get, put and del  *)
(* on one shared map; every statement group of the three functions is one  *)
(* action, so that what happens between pthread_mutex_lock and             *)
(* pthread_mutex_unlock, and what happens after the unlock, are distinct   *)
(* steps.                                                                  *)
(*                                                                         *)
(* Spec            threads calling get, put and del on a map of positive   *)
(*                 capacity                                                *)
(* OneMapSpec      one caller on a map of capacity 4                       *)
(* MapLifeSpec     Spec with freeMap                                       *)
(* AnyCapacitySpec Spec with initmap called with any capacity              *)
(* FairSpec        Spec under a fair scheduler                             *)
(* MultiMapSpec    Spec with initmap and freeMap of other map instances    *)
(***************************************************************************)
EXTENDS Integers, Sequences, FiniteSets

VARIABLES
  capacity,   \* map->capacity
  table,      \* map->table : 0..capacity-1 -> pointer
  size,       \* map->size
  numOps,     \* map->numOps
  mem,        \* the heap of ts_entry_t cells
  mutex,      \* the global mutex: 0 when free, a thread when it holds it,
              \* Dead once pthread_mutex_destroy has taken effect
  destroyed,  \* freeMap has freed the map
  fault,      \* the process has died on a wild pointer dereference
  pc,         \* per thread: where it stands in its call
  op,         \* per thread: the function it called last
  key,        \* per thread: the key argument
  value,      \* per thread: the value argument (put)
  index,      \* per thread: the local index
  entry,      \* per thread: the local entry
  previous,   \* per thread: the local previous (del)
  absmap,     \* history: the map the calls describe, in lock order
  had,        \* history, per thread: absmap[key] when the call took the lock
  lastOp,     \* history: the call of the most recent critical section
  prev,       \* history, per thread: lastOp when the call took the lock
  nReturned,  \* history: the number of calls that have returned
  net,        \* history: puts that returned INT_MAX minus dels that did not
  uaf,        \* history: some thread has read a field of a freed entry
  sentinelPut, \* history: some put was called with the value INT_MAX
  last,       \* history: the call that returned last, and what it returned
  freshOnly,  \* history: every call so far was a get, or a put of a key
              \* k >= 0 that no earlier put had stored
  scen        \* history: how far the calls have followed Script

vars == <<capacity, table, size, numOps, mem, mutex, destroyed, fault, pc, op,
          key, value, index, entry, previous, absmap, had, lastOp, prev,
          nReturned, net, uaf, sentinelPut, last, freshOnly, scen>>

mapVars == <<capacity, destroyed, table, size, numOps, mem>>
histVars == <<absmap, had, lastOp, prev, nReturned, net, uaf, sentinelPut,
              last, freshOnly, scen>>

----------------------------------------------------------------------------
\* Bounds of the model.
NumThreads == 2
MaxOps == 3
MaxCapacity == 2

\* Program constants.
IntMax == 2147483647
NULL == 0

Threads == 1..NumThreads
\* The keys the calls draw from: a negative one, zero and a positive one; in
\* a table of capacity 1 all three collide, in one of capacity 2 put stores
\* -1 and 1 in one bucket.
Keys == {0 - 1, 0, 1}
\* The values put draws from: two ordinary ones and the sentinel itself.
Values == {1, 2, IntMax}
\* The addresses of the heap.
Addr == DOMAIN mem
\* What a read outside the table may yield besides NULL: an address that is
\* no entry, whose dereference kills the process.
Wild == NULL - 1
\* The mutex after pthread_mutex_destroy: no thread holds it and none can.
Dead == 0 - 1

NoCall == [op |-> "none", key |-> 0, value |-> 0, had |-> <<>>]

\* A sequence of calls on one map and what each of them is expected to return;
\* the value of a get or a del is 0, as Call sets it.
Script ==
  << [op |-> "put", key |-> 1, value |-> 10, ret |-> IntMax],
     [op |-> "put", key |-> 5, value |-> 20, ret |-> IntMax],
     [op |-> "get", key |-> 1, value |-> 0, ret |-> 10],
     [op |-> "get", key |-> 5, value |-> 0, ret |-> 20],
     [op |-> "del", key |-> 1, value |-> 0, ret |-> 10],
     [op |-> "get", key |-> 1, value |-> 0, ret |-> IntMax] >>
ScriptKeys == {Script[i].key : i \in DOMAIN Script}
ScriptValues == {Script[i].value : i \in {j \in DOMAIN Script :
                                            Script[j].op = "put"}}
\* scen while the calls are not compared with Script, and when the
\* comparison starts.
ScriptOff == [on |-> FALSE, pos |-> 0, ok |-> TRUE]
ScriptOn == [on |-> TRUE, pos |-> 0, ok |-> TRUE]
NoReturn == [op |-> "none", key |-> 0, ret |-> 0]
FreeCell(st) == [key |-> 0, value |-> 0, next |-> NULL, st |-> st]

\* int index = key % map->capacity; C's remainder truncates toward zero.
SignedIndex(k, cap) == IF k >= 0 THEN k % cap ELSE 0 - ((0 - k) % cap)

\* unsigned int u_key = (unsigned int) key; int index = u_key % map->capacity;
\* for key < 0, u_key = 2^32 + key = IntMax + (IntMax + key + 1) + 1.
UnsignedIndex(k, cap) ==
  IF k >= 0 THEN k % cap
  ELSE ((IntMax % cap) + ((IntMax + k + 1) % cap) + 1) % cap

\* The values map->table[i] can yield: the slot inside the table.  Outside it
\* (a negative index, from key % capacity on a negative key) the read is
\* undefined: the word found there is NULL, and the scan ends as a miss, or it
\* is an address that is no entry, and the dereference that follows kills the
\* process.
TableRead(i) == IF i \in DOMAIN table THEN {table[i]} ELSE {NULL, Wild}

\* malloc(sizeof(ts_entry_t)): a cell never handed out before.
Malloc == CHOOSE a \in Addr : mem[a].st = "unalloc" /\
             \A b \in Addr : mem[b].st = "unalloc" => a <= b

----------------------------------------------------------------------------
\* initmap(c), lines 15-30: what it returns for the capacity c.  It does not
\* look at c: for c <= 0 the loop of lines 23-25 does not run and the map has
\* no slot.
initmap(c) ==
  /\ capacity = c
  /\ table = [i \in 0..(c - 1) |-> NULL]
  /\ size = 0
  /\ numOps = 0
  /\ mutex = 0
  /\ destroyed = FALSE

\* The process when the map has just been made: a heap of heapSize cells yet
\* to be handed out, every thread idle, no call made; ks are the keys the
\* calls will draw from, s is scen.
Start(ks, heapSize, s) ==
  /\ mem = [a \in 1..heapSize |-> FreeCell("unalloc")]
  /\ fault = FALSE
  /\ pc = [t \in Threads |-> "idle"]
  /\ op = [t \in Threads |-> "none"]
  /\ key = [t \in Threads |-> 0]
  /\ value = [t \in Threads |-> 0]
  /\ index = [t \in Threads |-> 0]
  /\ entry = [t \in Threads |-> NULL]
  /\ previous = [t \in Threads |-> NULL]
  /\ absmap = [k \in ks |-> <<>>]
  /\ had = [t \in Threads |-> <<>>]
  /\ lastOp = NoCall
  /\ prev = [t \in Threads |-> NoCall]
  /\ nReturned = 0
  /\ net = 0
  /\ uaf = FALSE
  /\ sentinelPut = FALSE
  /\ last = NoReturn
  /\ freshOnly = TRUE
  /\ scen = s

Init ==
  /\ \E c \in 1..MaxCapacity : initmap(c)
  /\ Start(Keys, MaxOps, ScriptOff)

----------------------------------------------------------------------------
\* The calls under way that have not yet counted themselves in numOps.
Uncounted == {t \in Threads : pc[t] \in {"get_lock", "put_lock", "del_lock",
                                         "get_hash", "put_hash", "del_hash"}}

\* The labels between pthread_mutex_lock and pthread_mutex_unlock.
InCS(t) == pc[t] \in {"get_hash", "get_loop", "put_hash", "put_chain",
                      "del_hash", "del_loop"}

\* History: thread t's call takes effect in lock order.
Linearize(t) ==
  /\ had' = [had EXCEPT ![t] = absmap[key[t]]]
  /\ prev' = [prev EXCEPT ![t] = lastOp]
  /\ lastOp' = [op |-> op[t], key |-> key[t], value |-> value[t],
                had |-> absmap[key[t]]]
  /\ absmap' = [absmap EXCEPT ![key[t]] =
                  IF op[t] = "put" THEN <<value[t]>>
                  ELSE IF op[t] = "del" THEN <<>> ELSE @]
  /\ freshOnly' = (/\ freshOnly
                   /\ \/ op[t] = "get"
                      \/ op[t] = "put" /\ key[t] >= 0 /\ absmap[key[t]] = <<>>)

\* pthread_mutex_lock(&mutex): blocks while another thread holds the mutex.
\* On a destroyed mutex it returns an error at once; the code does not look
\* at what it returns and goes on.
MutexLock(t, next) ==
  /\ ~fault
  /\ mutex \in {0, Dead}
  /\ mutex' = IF mutex = Dead THEN Dead ELSE t
  /\ pc' = [pc EXCEPT ![t] = next]
  /\ Linearize(t)
  /\ UNCHANGED <<mapVars, fault, op, key, value, index, entry, previous,
                 nReturned, net, uaf, sentinelPut, last, scen>>

\* pthread_mutex_unlock(&mutex); on a destroyed mutex it does nothing.
MutexUnlock == mutex' = IF mutex = Dead THEN Dead ELSE 0

\* History: scen after thread t's call has returned r.  The comparison goes
\* on while the calls made are the calls of Script, in its order, and ok
\* tells whether each has returned what Script expects.
ScriptStep(t, r) ==
  IF ~scen.on THEN scen
  ELSE IF /\ scen.pos < Len(Script)
          /\ Script[scen.pos + 1].op = op[t]
          /\ Script[scen.pos + 1].key = key[t]
          /\ Script[scen.pos + 1].value = value[t]
       THEN [on |-> TRUE, pos |-> scen.pos + 1,
             ok |-> scen.ok /\ r = Script[scen.pos + 1].ret]
       ELSE ScriptOff

\* return r: the call is over, its arguments and locals are gone, and r is
\* what the caller sees.
Return(t, r) ==
  /\ pc' = [pc EXCEPT ![t] = "idle"]
  /\ op' = [op EXCEPT ![t] = "none"]
  /\ key' = [key EXCEPT ![t] = 0]
  /\ value' = [value EXCEPT ![t] = 0]
  /\ index' = [index EXCEPT ![t] = 0]
  /\ entry' = [entry EXCEPT ![t] = NULL]
  /\ previous' = [previous EXCEPT ![t] = NULL]
  /\ had' = [had EXCEPT ![t] = <<>>]
  /\ prev' = [prev EXCEPT ![t] = NoCall]
  /\ last' = [op |-> op[t], key |-> key[t], ret |-> r]
  /\ nReturned' = nReturned + 1
  /\ net' = IF op[t] = "put" /\ r = IntMax THEN net + 1
            ELSE IF op[t] = "del" /\ r # IntMax THEN net - 1 ELSE net
  /\ scen' = ScriptStep(t, r)

\* free(a): cell a afterwards.  A cell that is not live when it is freed has
\* been freed twice.
Freed(a) == FreeCell(IF mem[a].st = "live" THEN "freed" ELSE "twice")

\* A read or write of a field of cell a; of a freed cell it is a use after
\* free.
Access(a) == uaf' = (uaf \/ mem[a].st # "live")

\* A thread calls get(map, k), put(map, k, v) or del(map, k) on a map that
\* has not been freed, with k from ks and v from vs; n bounds the calls made.
Calls(t, ks, vs, n) ==
  /\ ~fault
  /\ ~destroyed
  /\ numOps + Cardinality(Uncounted) < n
  /\ \E o \in {"get", "put", "del"}, k \in ks, v \in vs :
       /\ o # "put" => v = CHOOSE w \in vs : TRUE
       /\ op' = [op EXCEPT ![t] = o]
       /\ key' = [key EXCEPT ![t] = k]
       /\ value' = [value EXCEPT ![t] = IF o = "put" THEN v ELSE 0]
       /\ pc' = [pc EXCEPT ![t] = IF o = "get" THEN "get_lock"
                                  ELSE IF o = "put" THEN "put_lock"
                                  ELSE "del_lock"]
       /\ sentinelPut' = (sentinelPut \/ (o = "put" /\ v = IntMax))
  /\ UNCHANGED <<mapVars, mutex, fault, index, entry, previous, absmap, had,
                 lastOp, prev, nReturned, net, uaf, last, freshOnly, scen>>

Call(t) ==
  /\ pc[t] = "idle"
  /\ Calls(t, Keys, Values, MaxOps)

----------------------------------------------------------------------------
\* get, line 39.
GetLock(t) ==
  /\ pc[t] = "get_lock"
  /\ MutexLock(t, "get_hash")

\* get as it would be without map->numOps++ at line 40.
GetHashNoCount(t) ==
  /\ ~fault
  /\ pc[t] = "get_hash"
  /\ capacity > 0
  /\ index' = [index EXCEPT ![t] = SignedIndex(key[t], capacity)]
  /\ \E e \in TableRead(SignedIndex(key[t], capacity)) :
       entry' = [entry EXCEPT ![t] = e]
  /\ pc' = [pc EXCEPT ![t] = "get_loop"]
  /\ UNCHANGED <<mapVars, mutex, fault, op, key, value, previous, histVars>>

\* get, lines 40-43.
GetHash(t) ==
  /\ ~fault
  /\ pc[t] = "get_hash"
  /\ capacity > 0
  /\ numOps' = numOps + 1
  /\ index' = [index EXCEPT ![t] = SignedIndex(key[t], capacity)]
  /\ \E e \in TableRead(SignedIndex(key[t], capacity)) :
       entry' = [entry EXCEPT ![t] = e]
  /\ pc' = [pc EXCEPT ![t] = "get_loop"]
  /\ UNCHANGED <<capacity, destroyed, table, size, mem, mutex, fault, op, key,
                 value, previous, histVars>>

\* get, lines 46 (entry == NULL) and 56-57.
GetMiss(t) ==
  /\ ~fault
  /\ pc[t] = "get_loop"
  /\ entry[t] = NULL
  /\ MutexUnlock
  /\ Return(t, IntMax)
  /\ UNCHANGED <<mapVars, fault, absmap, lastOp, uaf, sentinelPut, freshOnly>>

\* get, line 47 on an address that is no entry.
GetFault(t) ==
  /\ ~fault
  /\ pc[t] = "get_loop"
  /\ entry[t] = Wild
  /\ fault' = TRUE
  /\ UNCHANGED <<mapVars, mutex, pc, op, key, value, index, entry, previous,
                 histVars>>

\* get as it would be if a hit made the entry found the head of its bucket.
GetHitPromotes(t) ==
  /\ ~fault
  /\ pc[t] = "get_loop"
  /\ entry[t] \in Addr
  /\ mem[entry[t]].key = key[t]
  /\ Access(entry[t])
  /\ table' = [table EXCEPT ![index[t]] = entry[t]]
  /\ MutexUnlock
  /\ pc' = [pc EXCEPT ![t] = "get_ret"]
  /\ UNCHANGED <<capacity, destroyed, size, numOps, mem, fault, op, key,
                 value, index, entry, previous, absmap, had, lastOp, prev,
                 nReturned, net, sentinelPut, last, freshOnly, scen>>

\* get, lines 47-48: the key matches and the lock is released.
GetHit(t) ==
  /\ ~fault
  /\ pc[t] = "get_loop"
  /\ entry[t] \in Addr
  /\ mem[entry[t]].key = key[t]
  /\ Access(entry[t])
  /\ MutexUnlock
  /\ pc' = [pc EXCEPT ![t] = "get_ret"]
  /\ UNCHANGED <<mapVars, fault, op, key, value, index, entry, previous,
                 absmap, had, lastOp, prev, nReturned, net, sentinelPut, last,
                 freshOnly, scen>>

\* get, lines 47 and 52.
GetNext(t) ==
  /\ ~fault
  /\ pc[t] = "get_loop"
  /\ entry[t] \in Addr
  /\ mem[entry[t]].key # key[t]
  /\ Access(entry[t])
  /\ entry' = [entry EXCEPT ![t] = mem[entry[t]].next]
  /\ UNCHANGED <<mapVars, mutex, fault, pc, op, key, value, index, previous,
                 absmap, had, lastOp, prev, nReturned, net, sentinelPut, last,
                 freshOnly, scen>>

\* get, line 49: entry->value is read after the unlock of line 48.  Of a cell
\* freed in between the read is undefined and yields any int.
GetRet(t) ==
  /\ ~fault
  /\ pc[t] = "get_ret"
  /\ Access(entry[t])
  /\ \E r \in (IF mem[entry[t]].st = "live" THEN {mem[entry[t]].value}
               ELSE Values) :
       Return(t, r)
  /\ UNCHANGED <<mapVars, mutex, fault, absmap, lastOp, sentinelPut,
                 freshOnly>>

----------------------------------------------------------------------------
\* put as it would be without waiting for the mutex at line 68.
PutLockNoWait(t) ==
  /\ pc[t] = "put_lock"
  /\ ~fault
  /\ mutex' = t
  /\ pc' = [pc EXCEPT ![t] = "put_hash"]
  /\ Linearize(t)
  /\ UNCHANGED <<mapVars, fault, op, key, value, index, entry, previous,
                 nReturned, net, uaf, sentinelPut, last, scen>>

\* put, line 68.
PutLock(t) ==
  /\ pc[t] = "put_lock"
  /\ MutexLock(t, "put_hash")

\* put, lines 69-75.
PutHash(t) ==
  /\ ~fault
  /\ pc[t] = "put_hash"
  /\ capacity > 0
  /\ numOps' = numOps + 1
  /\ index' = [index EXCEPT ![t] = UnsignedIndex(key[t], capacity)]
  /\ \E e \in TableRead(UnsignedIndex(key[t], capacity)) :
       entry' = [entry EXCEPT ![t] = e]
  /\ pc' = [pc EXCEPT ![t] = "put_chain"]
  /\ UNCHANGED <<capacity, destroyed, table, size, mem, mutex, fault, op, key,
                 value, previous, histVars>>

\* put, lines 78-89: the chain is empty, the new entry becomes its head.
PutEmpty(t) ==
  /\ ~fault
  /\ pc[t] = "put_chain"
  /\ entry[t] = NULL
  /\ mem' = [mem EXCEPT ![Malloc] = [key |-> key[t], value |-> value[t],
                                     next |-> NULL, st |-> "live"]]
  /\ table' = [table EXCEPT ![index[t]] = Malloc]
  /\ size' = size + 1
  /\ MutexUnlock
  /\ Return(t, IntMax)
  /\ UNCHANGED <<capacity, destroyed, numOps, fault, absmap, lastOp, uaf,
                 sentinelPut, freshOnly>>

\* put, lines 92-98: an entry that is not the last of its chain has the key.
PutUpdate(t) ==
  /\ ~fault
  /\ pc[t] = "put_chain"
  /\ entry[t] \in Addr
  /\ mem[entry[t]].next # NULL
  /\ mem[entry[t]].key = key[t]
  /\ Access(entry[t])
  /\ mem' = [mem EXCEPT ![entry[t]].value = value[t]]
  /\ MutexUnlock
  /\ Return(t, mem[entry[t]].value)
  /\ UNCHANGED <<capacity, destroyed, table, size, numOps, fault, absmap,
                 lastOp, sentinelPut, freshOnly>>

\* put, lines 92-93 and 100.
PutNext(t) ==
  /\ ~fault
  /\ pc[t] = "put_chain"
  /\ entry[t] \in Addr
  /\ mem[entry[t]].next # NULL
  /\ mem[entry[t]].key # key[t]
  /\ Access(entry[t])
  /\ entry' = [entry EXCEPT ![t] = mem[entry[t]].next]
  /\ UNCHANGED <<mapVars, mutex, fault, pc, op, key, value, index, previous,
                 absmap, had, lastOp, prev, nReturned, net, sentinelPut, last,
                 freshOnly, scen>>

\* put as it would be without map->size++ at line 111.
PutAppendNoCount(t) ==
  /\ ~fault
  /\ pc[t] = "put_chain"
  /\ entry[t] \in Addr
  /\ mem[entry[t]].next = NULL
  /\ Access(entry[t])
  /\ mem' = [mem EXCEPT ![Malloc] = [key |-> key[t], value |-> value[t],
                                     next |-> NULL, st |-> "live"],
                        ![entry[t]].next = Malloc]
  /\ MutexUnlock
  /\ Return(t, IntMax)
  /\ UNCHANGED <<capacity, destroyed, table, size, numOps, fault, absmap,
                 lastOp, sentinelPut, freshOnly>>

\* put as it would be if line 110 made the new entry the head of the bucket
\* in place of linking it behind the last entry.
PutAppendAsHead(t) ==
  /\ ~fault
  /\ pc[t] = "put_chain"
  /\ entry[t] \in Addr
  /\ mem[entry[t]].next = NULL
  /\ Access(entry[t])
  /\ mem' = [mem EXCEPT ![Malloc] = [key |-> key[t], value |-> value[t],
                                     next |-> NULL, st |-> "live"]]
  /\ table' = [table EXCEPT ![index[t]] = Malloc]
  /\ size' = size + 1
  /\ MutexUnlock
  /\ Return(t, IntMax)
  /\ UNCHANGED <<capacity, destroyed, numOps, fault, absmap, lastOp,
                 sentinelPut, freshOnly>>

\* put, lines 92 (entry->next == NULL) and 104-113: the new entry is linked
\* behind the last entry of the chain, whose key the loop has not compared.
PutAppend(t) ==
  /\ ~fault
  /\ pc[t] = "put_chain"
  /\ entry[t] \in Addr
  /\ mem[entry[t]].next = NULL
  /\ Access(entry[t])
  /\ mem' = [mem EXCEPT ![Malloc] = [key |-> key[t], value |-> value[t],
                                     next |-> NULL, st |-> "live"],
                        ![entry[t]].next = Malloc]
  /\ size' = size + 1
  /\ MutexUnlock
  /\ Return(t, IntMax)
  /\ UNCHANGED <<capacity, destroyed, table, numOps, fault, absmap, lastOp,
                 sentinelPut, freshOnly>>

----------------------------------------------------------------------------
\* del, line 123.
DelLock(t) ==
  /\ pc[t] = "del_lock"
  /\ MutexLock(t, "del_hash")

\* del, lines 124-128.
DelHash(t) ==
  /\ ~fault
  /\ pc[t] = "del_hash"
  /\ capacity > 0
  /\ numOps' = numOps + 1
  /\ index' = [index EXCEPT ![t] = SignedIndex(key[t], capacity)]
  /\ \E e \in TableRead(SignedIndex(key[t], capacity)) :
       entry' = [entry EXCEPT ![t] = e]
  /\ previous' = [previous EXCEPT ![t] = NULL]
  /\ pc' = [pc EXCEPT ![t] = "del_loop"]
  /\ UNCHANGED <<capacity, destroyed, table, size, mem, mutex, fault, op, key,
                 value, histVars>>

\* del as it would be if the miss of lines 155-157 did map->size-- too.
DelMissCounts(t) ==
  /\ ~fault
  /\ pc[t] = "del_loop"
  /\ entry[t] = NULL
  /\ size' = size - 1
  /\ MutexUnlock
  /\ Return(t, IntMax)
  /\ UNCHANGED <<capacity, destroyed, table, numOps, mem, fault, absmap,
                 lastOp, uaf, sentinelPut, freshOnly>>

\* del, lines 131 (entry == NULL) and 155-157.
DelMiss(t) ==
  /\ ~fault
  /\ pc[t] = "del_loop"
  /\ entry[t] = NULL
  /\ MutexUnlock
  /\ Return(t, IntMax)
  /\ UNCHANGED <<mapVars, fault, absmap, lastOp, uaf, sentinelPut, freshOnly>>

\* del, line 133 on an address that is no entry.
DelFault(t) ==
  /\ ~fault
  /\ pc[t] = "del_loop"
  /\ entry[t] = Wild
  /\ fault' = TRUE
  /\ UNCHANGED <<mapVars, mutex, pc, op, key, value, index, entry, previous,
                 histVars>>

\* del as it would be without map->size-- at line 146.
DelHitNoCount(t) ==
  /\ ~fault
  /\ pc[t] = "del_loop"
  /\ entry[t] \in Addr
  /\ mem[entry[t]].key = key[t]
  /\ Access(entry[t])
  /\ IF previous[t] # NULL
     THEN /\ mem' = [mem EXCEPT ![previous[t]].next = mem[entry[t]].next,
                                ![entry[t]] = Freed(entry[t])]
          /\ table' = table
     ELSE /\ mem' = [mem EXCEPT ![entry[t]] = Freed(entry[t])]
          /\ table' = [table EXCEPT ![index[t]] = mem[entry[t]].next]
  /\ MutexUnlock
  /\ Return(t, mem[entry[t]].value)
  /\ UNCHANGED <<capacity, destroyed, size, numOps, fault, absmap, lastOp,
                 sentinelPut, freshOnly>>

\* del as it would be without free(entry) at line 144.
DelHitNoFree(t) ==
  /\ ~fault
  /\ pc[t] = "del_loop"
  /\ entry[t] \in Addr
  /\ mem[entry[t]].key = key[t]
  /\ Access(entry[t])
  /\ IF previous[t] # NULL
     THEN /\ mem' = [mem EXCEPT ![previous[t]].next = mem[entry[t]].next]
          /\ table' = table
     ELSE /\ mem' = mem
          /\ table' = [table EXCEPT ![index[t]] = mem[entry[t]].next]
  /\ size' = size - 1
  /\ MutexUnlock
  /\ Return(t, mem[entry[t]].value)
  /\ UNCHANGED <<capacity, destroyed, numOps, fault, absmap, lastOp,
                 sentinelPut, freshOnly>>

\* del, lines 133-148: unlink the entry, free it, count it out.
DelHit(t) ==
  /\ ~fault
  /\ pc[t] = "del_loop"
  /\ entry[t] \in Addr
  /\ mem[entry[t]].key = key[t]
  /\ Access(entry[t])
  /\ IF previous[t] # NULL
     THEN /\ mem' = [mem EXCEPT ![previous[t]].next = mem[entry[t]].next,
                                ![entry[t]] = Freed(entry[t])]
          /\ table' = table
     ELSE /\ mem' = [mem EXCEPT ![entry[t]] = Freed(entry[t])]
          /\ table' = [table EXCEPT ![index[t]] = mem[entry[t]].next]
  /\ size' = size - 1
  /\ MutexUnlock
  /\ Return(t, mem[entry[t]].value)
  /\ UNCHANGED <<capacity, destroyed, numOps, fault, absmap, lastOp,
                 sentinelPut, freshOnly>>

\* del, lines 133 and 151-152.
DelNext(t) ==
  /\ ~fault
  /\ pc[t] = "del_loop"
  /\ entry[t] \in Addr
  /\ mem[entry[t]].key # key[t]
  /\ Access(entry[t])
  /\ previous' = [previous EXCEPT ![t] = entry[t]]
  /\ entry' = [entry EXCEPT ![t] = mem[entry[t]].next]
  /\ UNCHANGED <<mapVars, mutex, fault, pc, op, key, value, index, absmap,
                 had, lastOp, prev, nReturned, net, sentinelPut, last,
                 freshOnly, scen>>

----------------------------------------------------------------------------
Next ==
  \E t \in Threads :
    \/ Call(t)
    \/ GetLock(t)
    \/ GetHash(t)
    \/ GetMiss(t)
    \/ GetFault(t)
    \/ GetHit(t)
    \/ GetNext(t)
    \/ GetRet(t)
    \/ PutLock(t)
    \/ PutHash(t)
    \/ PutEmpty(t)
    \/ PutUpdate(t)
    \/ PutNext(t)
    \/ PutAppend(t)
    \/ DelLock(t)
    \/ DelHash(t)
    \/ DelMiss(t)
    \/ DelFault(t)
    \/ DelHit(t)
    \/ DelNext(t)

Spec == Init /\ [][Next]_vars

----------------------------------------------------------------------------
\* What the claims speak of.

\* The entries reachable from pointer e, in traversal order.
RECURSIVE ChainFrom(_, _)
ChainFrom(e, fuel) ==
  IF e \notin Addr \/ fuel = 0 THEN <<>>
  ELSE <<e>> \o ChainFrom(mem[e].next, fuel - 1)

\* The chain of bucket i.
Chain(i) == ChainFrom(table[i], Cardinality(Addr) + 1)

\* The places <<bucket, position>> of the table's entries.
Places == {p \in (DOMAIN table) \X (1..(Cardinality(Addr) + 1)) :
             p[2] <= Len(Chain(p[1]))}

CellAt(p) == mem[Chain(p[1])[p[2]]]

\* The call that returned last was a call of o.
Returned(o) == last.op = o
AllReturned == \A t \in Threads : pc[t] = "idle"

\* The step in which thread t's get, put or del returns.
GetReturns(t) == pc[t] \in {"get_loop", "get_ret"} /\ pc'[t] = "idle"
PutReturns(t) == pc[t] = "put_chain" /\ pc'[t] = "idle"
DelReturns(t) == pc[t] = "del_loop" /\ pc'[t] = "idle"

\* C1: at most one thread is between its pthread_mutex_lock and its
\* pthread_mutex_unlock at any instant, whatever buckets the threads address.
C1_MutualExclusion ==
  \A t1, t2 \in Threads : t1 # t2 => ~(InCS(t1) /\ InCS(t2))

\* C1 witness: one thread is inside put's critical section while another,
\* whose put addresses a different bucket, waits at the lock.
C1_Witness ==
  \E t1, t2 \in Threads :
    /\ pc[t1] = "put_chain"
    /\ pc[t2] = "put_lock"
    /\ UnsignedIndex(key[t1], capacity) # UnsignedIndex(key[t2], capacity)

\* C2: every access of get, put and del to the map's state is made under the
\* lock, so that no thread ever reads a field of an entry already freed.
\* get reads entry->value (line 49) after its unlock (line 48); the formula
\* states what the claim concludes from the locking: no read of a freed entry.
C2_NoReadOfFreedEntry == ~uaf

\* C3: the whole table holds at most one entry with any given key.
C3_KeysUnique ==
  \A p, q \in Places : CellAt(p).key = CellAt(q).key => p = q

\* C4: put(k, v) followed immediately by get(k) returns v.  Stated for the
\* keys k >= 0, for which the index computations of put and get agree.
C4_RoundTrip ==
  [][\A t \in Threads :
       (/\ GetReturns(t)
        /\ key[t] >= 0
        /\ prev[t].op = "put"
        /\ prev[t].key = key[t]) => last'.ret = prev[t].value]_vars

\* C5: put(k, v1) on a key not in the map returns INT_MAX and adds 1 to size;
\* a later put(k, v2) while k is still in the map returns v1 and leaves size
\* as it is.
C5_PutSemantics ==
  [][\A t \in Threads :
       PutReturns(t) =>
         IF had[t] = <<>>
         THEN last'.ret = IntMax /\ size' = size + 1
         ELSE last'.ret = had[t][1] /\ size' = size]_vars

\* C6: for a key k whose most recent put stored v, del(k) returns v and takes
\* 1 from size, and a get(k) issued next returns INT_MAX.  Stated for the keys
\* k >= 0, for which the index computations of put, get and del agree.
C6_Deletion ==
  [][\A t \in Threads :
       /\ (DelReturns(t) /\ key[t] >= 0 /\ had[t] # <<>>) =>
            (last'.ret = had[t][1] /\ size' = size - 1)
       /\ (/\ GetReturns(t)
           /\ key[t] >= 0
           /\ prev[t].op = "del"
           /\ prev[t].key = key[t]
           /\ prev[t].had # <<>>) => last'.ret = IntMax]_vars

\* C7: numOps counts every call exactly once: it equals the number of calls
\* that have returned plus the calls under way that are past their
\* map->numOps++, so that after N completed calls and none under way it is N.
C7_NumOpsCountsCalls ==
  numOps = nReturned +
           Cardinality({t \in Threads : pc[t] # "idle"} \ Uncounted)

\* C7 witness: MaxOps calls have all returned, among them a del that freed an
\* entry and, last, a get that missed.
C7_Witness ==
  /\ AllReturned
  /\ nReturned = MaxOps
  /\ Returned("get")
  /\ last.ret = IntMax
  /\ \E a \in Addr : mem[a].st = "freed"

\* The number of entries reachable from the bucket heads.
Reachable == Cardinality(Places)

\* C8: whenever the lock is free, size is the number of entries reachable
\* from the bucket heads.
C8_SizeCountsEntries == mutex = 0 => size = Reachable

\* C8 witness: the lock is free after a del that removed an entry from a
\* table that still holds one.
C8_Witness ==
  /\ mutex = 0
  /\ size = 1
  /\ Returned("del")
  /\ last.ret # IntMax

\* C9 as claimed: when all calls have returned, size is the number of puts
\* that returned INT_MAX minus the number of dels that returned another value.
C9_SizeIsNetOfReturns == AllReturned => size = net

\* C9 as amended: the same, in the runs in which no put stores INT_MAX.
C9_SizeIsNetOfReturnsNoSentinel ==
  (AllReturned /\ ~sentinelPut) => size = net

\* C9 witness: MaxOps calls have all returned, the last of them a del that
\* found its key, and an entry of an earlier put is left.
C9_Witness ==
  /\ AllReturned
  /\ ~sentinelPut
  /\ nReturned = MaxOps
  /\ Returned("del")
  /\ last.ret # IntMax
  /\ size = 1

\* C10: every entry of bucket i has a key that put, get and del all map to
\* bucket i, negative keys included.
C10_OneBucketPerKey ==
  \A p \in Places :
    /\ UnsignedIndex(CellAt(p).key, capacity) = p[1]
    /\ SignedIndex(CellAt(p).key, capacity) = p[1]

----------------------------------------------------------------------------
\* One caller on a map of capacity 4, where the keys of Script collide.

\* The thread that makes the calls.
Main == CHOOSE t \in Threads : \A u \in Threads : t <= u

OneMapInit ==
  /\ initmap(4)
  /\ Start(ScriptKeys, Len(Script), ScriptOn)

\* The caller makes up to Len(Script) calls with the keys and values of
\* Script, those of Script in its order among them.
OneMapCall(t) ==
  /\ pc[t] = "idle"
  /\ Calls(t, ScriptKeys, ScriptValues, Len(Script))

\* The steps of the one caller.  No key of Script is negative, so that no
\* call reads outside the table and GetFault and DelFault have no part.
OneMapNext ==
  \E t \in {Main} :
    \/ OneMapCall(t)
    \/ GetLock(t)
    \/ GetHash(t)
    \/ GetMiss(t)
    \/ GetHit(t)
    \/ GetNext(t)
    \/ GetRet(t)
    \/ PutLock(t)
    \/ PutHash(t)
    \/ PutEmpty(t)
    \/ PutUpdate(t)
    \/ PutNext(t)
    \/ PutAppend(t)
    \/ DelLock(t)
    \/ DelHash(t)
    \/ DelMiss(t)
    \/ DelHit(t)
    \/ DelNext(t)

OneMapSpec == OneMapInit /\ [][OneMapNext]_vars

\* The calls made so far are the calls of Script, all of them, in its order.
ScriptDone == scen.on /\ scen.pos = Len(Script)

\* C11 as claimed: on a fresh map of capacity 4, put(1,10), put(5,20), get(1),
\* get(5), del(1), get(1) return INT_MAX, INT_MAX, 10, 20, 10, INT_MAX, and
\* afterwards size is 1 and numOps is 5.
C11_ScenarioAsClaimed ==
  ScriptDone => (scen.ok /\ size = 1 /\ numOps = 5)

\* C11 as amended: the same returns and the same size, and numOps is the
\* number of calls made, which is 6.
C11_Scenario ==
  ScriptDone => (scen.ok /\ size = 1 /\ numOps = Len(Script))

\* C11 witness: the six calls of Script have been made and have returned.
C11_Witness == ScriptDone /\ pc[Main] = "idle" /\ last.op = "get"

----------------------------------------------------------------------------
\* No entry of the table has the key k.
Absent(k) == \A p \in Places : CellAt(p).key # k

----------------------------------------------------------------------------
\* The map from initmap to freeMap.

\* The entries the loops of freeMap (lines 183-190) come upon, bucket after
\* bucket from bucket i on, each chain from its head.
RECURSIVE WalkFrom(_)
WalkFrom(i) == IF i >= capacity THEN <<>> ELSE Chain(i) \o WalkFrom(i + 1)
Walk == WalkFrom(0)

\* How many times the walk comes upon cell a.
TimesReached(a) == LET w == Walk IN Cardinality({j \in 1..Len(w) : w[j] = a})

\* freeMap, lines 182-195: frees every cell its walk comes upon, then the
\* table and the map, and destroys the mutex.  It takes no lock and frees what
\* the calls work on, so it is called when no call is under way, and no call
\* is made once it has run.  What pthread_mutex_destroy leaves of the mutex
\* differs between C libraries: an unusable mutex, or the mutex as it was.
FreeMap ==
  /\ ~fault
  /\ ~destroyed
  /\ AllReturned
  /\ mem' = [a \in Addr |->
               IF TimesReached(a) = 0 THEN mem[a]
               ELSE IF TimesReached(a) = 1 THEN Freed(a)
               ELSE FreeCell("twice")]
  /\ destroyed' = TRUE
  /\ mutex' \in {mutex, Dead}
  /\ UNCHANGED <<capacity, table, size, numOps, fault, pc, op, key, value,
                 index, entry, previous, histVars>>

MapLifeNext == Next \/ FreeMap

MapLifeSpec == Init /\ [][MapLifeNext]_vars

\* C13: no entry is ever freed twice; before freeMap an entry is allocated
\* exactly when it is reachable from a bucket head, and a walk over all the
\* chains comes upon it once, so that it hangs from one head, at one place;
\* after freeMap no entry is left allocated, so that every entry put has
\* allocated has been freed once, by del or by freeMap.
C13_EveryEntryFreedOnce ==
  /\ \A a \in Addr : mem[a].st # "twice"
  /\ ~destroyed =>
       LET w == Walk
           live == {a \in Addr : mem[a].st = "live"}
       IN  /\ live = {w[j] : j \in 1..Len(w)}
           /\ Cardinality(live) = Len(w)
  /\ destroyed => \A a \in Addr : mem[a].st \in {"unalloc", "freed"}

\* C13 witness: freeMap has run on a map that held an entry, after a del that
\* had freed another one.
C13_Witness ==
  /\ destroyed
  /\ size >= 1
  /\ Returned("del")
  /\ last.ret # IntMax
  /\ Cardinality({a \in Addr : mem[a].st = "freed"}) >= 2

----------------------------------------------------------------------------
\* initmap with any capacity.

\* initmap(c) for the c a caller may pass: a negative one, zero, and the
\* positive ones of Init.
AnyCapacityInit ==
  /\ \E c \in (0 - 1)..MaxCapacity : initmap(c)
  /\ Start(Keys, MaxOps, ScriptOff)

\* get, put and del, lines 40-43, 69-75 and 124-127, on a map whose capacity
\* is not positive: after map->numOps++ the remainder by a capacity of 0
\* traps, and with a negative capacity map->table is the NULL that malloc
\* has returned for the wrapped size of line 17, whose slot cannot be read.
\* The process dies holding the mutex.
HashFault(t) ==
  /\ ~fault
  /\ pc[t] \in {"get_hash", "put_hash", "del_hash"}
  /\ capacity <= 0
  /\ numOps' = numOps + 1
  /\ fault' = TRUE
  /\ UNCHANGED <<capacity, destroyed, table, size, mem, mutex, pc, op, key,
                 value, index, entry, previous, histVars>>

AnyCapacityNext == Next \/ \E t \in Threads : HashFault(t)

AnyCapacitySpec == AnyCapacityInit /\ [][AnyCapacityNext]_vars

\* C14: no map of a capacity that is zero or negative comes out of initmap,
\* so that no get, put or del is ever inside its critical section on a map
\* whose capacity is not positive.
C14_NoCallOnNonPositiveCapacity ==
  \A t \in Threads : InCS(t) => capacity > 0

----------------------------------------------------------------------------
\* C15: get changes nothing of the map but numOps: from its lock to its
\* unlock no step changes a bucket head, a chain, an entry's key or value, or
\* size, on a hit and on a miss alike, nor does the step in which it returns
\* after a hit; numOps grows by one, in the step of line 40.
C15_GetChangesOnlyNumOps ==
  [][\A t \in Threads :
       (\/ pc[t] \in {"get_hash", "get_loop"}
        \/ pc[t] = "get_lock" /\ pc'[t] = "get_hash"
        \/ pc[t] = "get_ret" /\ pc'[t] = "idle") =>
         /\ table' = table
         /\ mem' = mem
         /\ size' = size
         /\ capacity' = capacity
         /\ numOps' = IF pc[t] = "get_hash" /\ pc'[t] = "get_loop"
                      THEN numOps + 1 ELSE numOps]_vars

\* C15 witness: a get has found its key in a map of two entries and has
\* returned the value.
C15_Witness ==
  /\ Returned("get")
  /\ last.ret # IntMax
  /\ size = 2
  /\ numOps = MaxOps

----------------------------------------------------------------------------
\* Fair scheduling.

\* Thread t takes the lock its call waits for.
LockStep(t) == GetLock(t) \/ PutLock(t) \/ DelLock(t)

\* Any other step of a call of thread t that is under way.
CallStep(t) ==
  \/ GetHash(t) \/ GetMiss(t) \/ GetFault(t) \/ GetHit(t) \/ GetNext(t)
  \/ GetRet(t)
  \/ PutHash(t) \/ PutEmpty(t) \/ PutUpdate(t) \/ PutNext(t) \/ PutAppend(t)
  \/ DelHash(t) \/ DelMiss(t) \/ DelFault(t) \/ DelHit(t) \/ DelNext(t)

\* The scheduler runs every thread that can run, and a thread that can take
\* the mutex again and again does take it.
FairSpec ==
  /\ Spec
  /\ \A t \in Threads : WF_vars(CallStep(t)) /\ SF_vars(LockStep(t))

\* C16: under fair scheduling every call of get, put or del that has started
\* returns.
C16_EveryCallReturns ==
  \A t \in Threads : (pc[t] # "idle") ~> (pc[t] = "idle")

----------------------------------------------------------------------------
\* The places of the entries with key k.
PlacesOf(k) == {p \in Places : CellAt(p).key = k}

\* C17: when the threads put keys k >= 0 that are not yet in the map, each key
\* once, keys of one bucket among them, then once no put is under way every
\* key put has one entry, which holds the value put, and a get of it returns
\* that value.
C17_NoInsertionLost ==
  /\ []((freshOnly /\ \A t \in Threads : op[t] # "put") =>
          \A k \in DOMAIN absmap :
            absmap[k] # <<>> =>
              /\ Cardinality(PlacesOf(k)) = 1
              /\ \A p \in PlacesOf(k) : CellAt(p).value = absmap[k][1])
  /\ [][\A t \in Threads :
          (GetReturns(t) /\ freshOnly /\ had[t] # <<>>) =>
            last'.ret = had[t][1]]_vars

\* C17 witness: the puts of two keys that collide in the one bucket of the
\* table have returned, and so has a get that found its key.
C17_Witness ==
  /\ AllReturned
  /\ freshOnly
  /\ capacity = 1
  /\ Cardinality({k \in DOMAIN absmap : absmap[k] # <<>>}) = 2
  /\ Returned("get")
  /\ last.ret # IntMax

----------------------------------------------------------------------------
\* Other maps in the process.  They share the one mutex of line 8; what the
\* model keeps of them is what their initmap and freeMap do to it.

\* initmap for another instance, line 28: pthread_mutex_init on the mutex in
\* use writes a fresh, unlocked mutex over it, whoever holds it.
InitOtherMap ==
  /\ ~fault
  /\ mutex' = 0
  /\ UNCHANGED <<mapVars, fault, pc, op, key, value, index, entry, previous,
                 histVars>>

\* freeMap of another instance, line 194: pthread_mutex_destroy fails on a
\* mutex that is held and leaves it as it is; a free mutex it makes unusable
\* or leaves as it is, depending on the C library.
FreeOtherMap ==
  /\ ~fault
  /\ mutex' \in (IF mutex = 0 THEN {0, Dead} ELSE {mutex})
  /\ UNCHANGED <<mapVars, fault, pc, op, key, value, index, entry, previous,
                 histVars>>

MultiMapNext == Next \/ InitOtherMap \/ FreeOtherMap

MultiMapSpec == Init /\ [][MultiMapNext]_vars

\* C18: with other map instances in the process, whose initmap and freeMap
\* run at any time, at most one thread is inside a critical section of get,
\* put or del at any instant.
C18_OneThreadInCriticalSection ==
  Cardinality({t \in Threads : InCS(t)}) <= 1

----------------------------------------------------------------------------
\* C19: the index that get, put and del compute from the key, negative keys
\* included, is a slot of the table, so that no call reads or writes
\* map->table outside 0..capacity-1.
C19_IndexInsideTable ==
  \A t \in Threads :
    pc[t] \in {"get_loop", "get_ret", "put_chain", "del_loop"} =>
      index[t] \in 0..(capacity - 1)

----------------------------------------------------------------------------
\* C20: INT_MAX is returned for absence and for nothing else, whatever the
\* values stored, INT_MAX among them: a put or a del returns INT_MAX exactly
\* when no entry has its key as it returns, a get that returns from its miss
\* (lines 56-57) has a key that no entry has, and a get that returns the value
\* of the entry it has found (line 49) does not return INT_MAX.
C20_SentinelIffAbsent ==
  [][\A t \in Threads :
       /\ PutReturns(t) => (last'.ret = IntMax <=> Absent(key[t]))
       /\ DelReturns(t) => (last'.ret = IntMax <=> Absent(key[t]))
       /\ (pc[t] = "get_loop" /\ pc'[t] = "idle") => Absent(key[t])
       /\ (pc[t] = "get_ret" /\ pc'[t] = "idle") => last'.ret # IntMax]_vars

====
